---------------------------- MODULE Spec2Model ----------------------------
(***************************************************************************)
(* A model of kgwsimulator.go: the compact difficulty codec (CompactToBig, *)
(* BigToCompact), the work estimator (CalcWork), the Kimoto Gravity Well   *)
(* retarget (calcDiffAdjustKGW) and the simulation loop of main.           *)
(*                                                                         *)
(* math/big values are modelled with arbitrary precision: a big.Int is a   *)
(* record [neg, abs] whose abs is the magnitude as a little-endian         *)
(* sequence of base-256 digits without leading zero digits (Go's nat is    *)
(* the same with machine words), so that len(n.Bytes()) is Len(n.abs).     *)
(* int64 values that the code can overflow (timeInSeconds, the Duration,   *)
(* timestamps) are carried as such records too and wrapped to 64 bits      *)
(* where Go wraps them.                                                    *)
(***************************************************************************)
EXTENDS Integers, Sequences, FiniteSets, TLC

VARIABLES
    pc,            \* where the process is: main ("start", "loop", "done"),
                   \* a harness ("calc", "codec") or "panic"
    args,          \* os.Args of main: [hash, num, diff]
    lastBlocks,    \* main: the rolling window of headers, oldest first
    bestHeader,    \* main: the newest header
    chainHeight,   \* main: height, the height of the newest header
    startHeight,   \* main: height when the simulation started
    diff,          \* main: the compact difficulty in force
    hashRate,      \* main: hashes per second
    blockIndex,    \* main: the loop counter i
    totalSeconds,  \* main: the sum of the times to block
    rows,          \* main: the table rows printed
    summary,       \* main: the last line printed
    params,        \* the parameter block VertcoinParams (a heap object)
    calls,         \* the calls of calcDiffAdjustKGW made so far
    cin,           \* harness: the input drawn for the function under check
    cout           \* harness: what the codec and CalcWork returned

vars == <<pc, args, lastBlocks, bestHeader, chainHeight, startHeight, diff, hashRate,
          blockIndex, totalSeconds, rows, summary, params, calls, cin, cout>>

(***************************************************************************)
(* Natural numbers as little-endian base-256 digit sequences (big.nat).    *)
(***************************************************************************)
(* The digit-wise operations are written with carry look-ahead instead of  *)
(* a carry passed along a recursion, which keeps their evaluation shallow. *)
\* s without its leading (most significant) zero digits.  SubSeq makes the
\* digits an explicit tuple (a function constructor is evaluated once here)
NatNorm(s) ==
    LET t == SubSeq(s, 1, Len(s))
    IN  IF t = <<>> \/ t[Len(t)] # 0 THEN t
        ELSE IF \A i \in 1..Len(t) : t[i] = 0 THEN <<>>
        ELSE SubSeq(t, 1, CHOOSE i \in 1..Len(t) :
                            t[i] # 0 /\ \A j \in (i + 1)..Len(t) : t[j] = 0)

RECURSIVE NatFromInt(_)
NatFromInt(k) == IF k = 0 THEN <<>> ELSE <<k % 256>> \o NatFromInt(k \div 256)

\* the value of at most four digits (below 2^31)
RECURSIVE NatToInt(_)
NatToInt(s) == IF s = <<>> THEN 0 ELSE s[1] + 256 * NatToInt(Tail(s))

NatCmp(a, b) ==
    IF Len(a) < Len(b) THEN -1
    ELSE IF Len(a) > Len(b) THEN 1
    ELSE IF a = b THEN 0
    ELSE LET i == CHOOSE i \in 1..Len(a) :
                    a[i] # b[i] /\ \A j \in (i + 1)..Len(a) : a[j] = b[j]
         IN  IF a[i] < b[i] THEN -1 ELSE 1

NatDigit(a, i) == IF i <= Len(a) THEN a[i] ELSE 0

\* the carry into digit i of a + b
NatCarry(a, b, i) ==
    IF \E j \in 1..(i - 1) :
          /\ NatDigit(a, j) + NatDigit(b, j) >= 256
          /\ \A k \in (j + 1)..(i - 1) : NatDigit(a, k) + NatDigit(b, k) = 255
    THEN 1 ELSE 0

NatAdd(a, b) ==
    LET n == IF Len(a) < Len(b) THEN Len(b) ELSE Len(a)
    IN  NatNorm([i \in 1..(n + 1) |->
                   (NatDigit(a, i) + NatDigit(b, i) + NatCarry(a, b, i)) % 256])

\* the borrow from digit i of a - b
NatBorrow(a, b, i) ==
    IF \E j \in 1..(i - 1) :
          /\ a[j] < NatDigit(b, j)
          /\ \A k \in (j + 1)..(i - 1) : a[k] = NatDigit(b, k)
    THEN 1 ELSE 0

\* a - b for a >= b
NatSub(a, b) ==
    NatNorm([i \in 1..Len(a) |->
               (a[i] - NatDigit(b, i) - NatBorrow(a, b, i)) % 256])

\* a * d for one digit d in 0..255: the low and the high bytes of the
\* digit products, added
NatMulDigit(a, d) ==
    IF d = 0 \/ a = <<>> THEN <<>>
    ELSE NatAdd(NatNorm([i \in 1..Len(a) |-> (a[i] * d) % 256]),
                NatNorm([i \in 1..(Len(a) + 1) |->
                           IF i = 1 THEN 0 ELSE (a[i - 1] * d) \div 256]))

\* a * 256^k
NatShiftUp(a, k) == IF a = <<>> THEN <<>> ELSE [j \in 1..k |-> 0] \o a

\* a \div 256^k
NatShiftDown(a, k) == IF k >= Len(a) THEN <<>> ELSE SubSeq(a, k + 1, Len(a))

RECURSIVE NatMul(_, _)
NatMul(a, b) ==
    IF b = <<>> \/ a = <<>> THEN <<>>
    ELSE LET up == NatMul(a, Tail(b))
         IN  IF Len(up) < 0 THEN up
             ELSE NatAdd(NatMulDigit(a, Head(b)), NatShiftUp(up, 1))

\* the largest d in lo..hi with d * b <= t (lo satisfies it)
RECURSIVE NatQuoDigit(_, _, _, _)
NatQuoDigit(t, b, lo, hi) ==
    IF lo = hi THEN lo
    ELSE LET mid == (lo + hi + 1) \div 2
         IN  IF NatCmp(NatMulDigit(b, mid), t) <= 0
             THEN NatQuoDigit(t, b, mid, hi)
             ELSE NatQuoDigit(t, b, lo, mid - 1)

\* one step of the long division: q the quotient so far, t the remainder so
\* far with the next digit of the dividend brought down
NatDivModDigit(q, t, b, d) == <<NatNorm(<<d>> \o q), NatSub(t, NatMulDigit(b, d))>>

\* the quotient digit lies between the estimates made from the top two
\* digits of b (rounded up, and down) and the digits of t above them
NatDivModStep(q, t, b) ==
    LET n  == Len(b)
        t3 == NatDigit(t, n + 1) * 65536 + NatDigit(t, n) * 256 + NatDigit(t, n - 1)
        b2 == b[n] * 256 + b[n - 1]
        hi == t3 \div b2
    IN  NatDivModDigit(q, t, b,
                       NatQuoDigit(t, b, t3 \div (b2 + 1), IF hi > 255 THEN 255 ELSE hi))

\* <<a \div b, a % b>> for a divisor b of more than two digits, by long
\* division from the top digit
RECURSIVE NatDivModLong(_, _)
NatDivModLong(a, b) ==
    IF Len(a) < Len(b) THEN <<<<>>, a>>
    ELSE LET up == NatDivModLong(Tail(a), b)
         IN  IF Len(up) # 2 THEN up
             ELSE NatDivModStep(up[1], NatNorm(<<Head(a)>> \o up[2]), b)

\* <<the digits of a \div k, a % k>> for a machine integer 0 < k < 2^16
RECURSIVE NatDivModShort(_, _)
NatDivModShort(a, k) ==
    IF a = <<>> THEN <<<<>>, 0>>
    ELSE LET up == NatDivModShort(Tail(a), k)
         IN  IF Len(up) # 2 THEN up
             ELSE LET t == up[2] * 256 + Head(a)
                  IN  <<<<t \div k>> \o up[1], t % k>>

\* <<a \div b, a % b>> for b # 0
NatDivMod(a, b) ==
    IF Len(b) <= 2
    THEN LET qr == NatDivModShort(a, NatToInt(b))
         IN  <<NatNorm(qr[1]), NatFromInt(qr[2])>>
    ELSE NatDivModLong(a, b)

\* 2^n
NatPow2(n) == NatShiftUp(<<2 ^ (n % 8)>>, n \div 8)

(***************************************************************************)
(* math/big.Int: sign and magnitude.                                       *)
(***************************************************************************)
BigMake(neg, abs) == [neg |-> neg /\ abs # <<>>, abs |-> abs]

\* big.NewInt(k) for a machine integer k
BigNewInt(k) == IF k < 0 THEN BigMake(TRUE, NatFromInt(-k))
                ELSE BigMake(FALSE, NatFromInt(k))

BigZero == BigNewInt(0)

BigSign(x) == IF x.abs = <<>> THEN 0 ELSE IF x.neg THEN -1 ELSE 1

BigNeg(x) == BigMake(~x.neg, x.abs)

BigCmp(x, y) ==
    IF x.neg # y.neg THEN (IF x.neg THEN -1 ELSE 1)
    ELSE IF x.neg THEN NatCmp(y.abs, x.abs) ELSE NatCmp(x.abs, y.abs)

BigAdd(x, y) ==
    IF x.neg = y.neg THEN BigMake(x.neg, NatAdd(x.abs, y.abs))
    ELSE IF NatCmp(x.abs, y.abs) >= 0
         THEN BigMake(x.neg, NatSub(x.abs, y.abs))
         ELSE BigMake(y.neg, NatSub(y.abs, x.abs))

BigSub(x, y) == BigAdd(x, BigNeg(y))

BigMul(x, y) == BigMake(x.neg # y.neg, NatMul(x.abs, y.abs))

\* Int.Quo and Int.Rem: truncated division (Go's / and % on integers)
BigQuo(x, y) == BigMake(x.neg # y.neg, NatDivMod(x.abs, y.abs)[1])

BigRem(x, y) == BigMake(x.neg, NatDivMod(x.abs, y.abs)[2])

\* Int.Div: Euclidean division, the remainder is never negative
BigDivOf(q, m, y) ==
    IF BigSign(m) >= 0 THEN q
    ELSE IF y.neg THEN BigAdd(q, BigNewInt(1)) ELSE BigSub(q, BigNewInt(1))

BigDiv(x, y) == BigDivOf(BigQuo(x, y), BigRem(x, y), y)

\* Int.Lsh: x << n
BigLsh(x, n) ==
    BigMake(x.neg, NatShiftUp(NatMulDigit(x.abs, 2 ^ (n % 8)), n \div 8))

NatRsh(a, n) == NatDivMod(NatShiftDown(a, n \div 8), <<2 ^ (n % 8)>>)[1]

\* Int.Rsh: x >> n, an arithmetic shift: for x < 0 it is -(((-x) - 1) >> n) - 1
BigRsh(x, n) ==
    IF x.neg
    THEN BigMake(TRUE, NatAdd(NatRsh(NatSub(x.abs, <<1>>), n), <<1>>))
    ELSE BigMake(FALSE, NatRsh(x.abs, n))

Two63 == BigMake(FALSE, NatPow2(63))

Two64 == BigMake(FALSE, NatPow2(64))

\* the int64 that holds z modulo 2^64 (Go's wrap-around of int64 arithmetic)
SignedOfUint64(u) == IF BigCmp(u, Two63) >= 0 THEN BigSub(u, Two64) ELSE u

WrapInt64(z) == SignedOfUint64(BigSub(z, BigMul(BigDiv(z, Two64), Two64)))

\* Int.Int64: the low 64 bits of the magnitude as an int64, negated for a
\* negative value ("if x cannot be represented the result is undefined";
\* the gc implementation returns exactly this)
BigInt64(x) ==
    WrapInt64(BigMake(x.neg, NatNorm(SubSeq(x.abs, 1, IF Len(x.abs) < 8 THEN Len(x.abs)
                                                      ELSE 8))))

(***************************************************************************)
(* Machine words.  A uint32 is a natural number below 2^32; the compact    *)
(* values of the model are kept below 2^31 (exponent byte below 128), so   *)
(* that no uint32 operation of the codec wraps.                            *)
(***************************************************************************)
RECURSIVE BitOr(_, _)
BitOr(a, b) ==
    IF a = 0 THEN b
    ELSE IF b = 0 THEN a
    ELSE (IF a % 2 = 1 \/ b % 2 = 1 THEN 1 ELSE 0) + 2 * BitOr(a \div 2, b \div 2)

\* uint32(n.Bits()[0]): the low 32 bits of the magnitude
Uint32OfBits(n) == NatToInt(SubSeq(n.abs, 1, IF Len(n.abs) < 4 THEN Len(n.abs) ELSE 4))

(***************************************************************************)
(* The compact difficulty codec.                                           *)
(***************************************************************************)
\* mantissa&0x00800000 != 0 (BigToCompact) and compact&0x00800000 != 0
SignBitSet(word) == (word \div 8388608) % 2 = 1

CompactToBig(compact) ==
    LET mantissa   == compact % 8388608
        isNegative == SignBitSet(compact)
        exponent   == compact \div 16777216
        bn == IF exponent <= 3
              THEN BigNewInt(mantissa \div (256 ^ (3 - exponent)))
              ELSE BigLsh(BigNewInt(mantissa), 8 * (exponent - 3))
    IN  IF isNegative THEN BigNeg(bn) ELSE bn

\* the mantissa and exponent before normalisation: the top three bytes of n
CompactMantissa(n) ==
    LET exponent == Len(n.abs)
    IN  IF exponent <= 3
        THEN Uint32OfBits(n) * (256 ^ (3 - exponent))
        ELSE Uint32OfBits(BigRsh(n, 8 * (exponent - 3)))

\* BigToCompact without the normalisation of a mantissa whose top bit is set
NormalizeMantissaNever(mantissa, exponent) == <<mantissa, exponent>>

\* "When the mantissa already has the sign bit set ... divide the number by
\* 256 and increment the exponent accordingly": <<mantissa, exponent>>
NormalizeMantissa(mantissa, exponent) ==
    IF SignBitSet(mantissa)
    THEN <<mantissa \div 256, exponent + 1>>
    ELSE <<mantissa, exponent>>

BigToCompact(n) ==
    IF BigSign(n) = 0 THEN 0
    ELSE LET me      == NormalizeMantissa(CompactMantissa(n), Len(n.abs))
             compact == BitOr(me[2] * 16777216, me[1])
         IN  IF BigSign(n) < 0 THEN BitOr(compact, 8388608) ELSE compact

(***************************************************************************)
(* The work estimator.                                                     *)
(***************************************************************************)
bigOne == BigNewInt(1)

oneLsh256 == BigLsh(bigOne, 256)

\* CalcWork with the test "Sign() < 0" in place of "Sign() <= 0"
CalcWorkWithZeroTarget(bits, one, lsh256) ==
    LET difficultyNum == CompactToBig(bits)
    IN  IF BigSign(difficultyNum) < 0 THEN BigNewInt(0)
        ELSE BigDiv(lsh256, BigAdd(difficultyNum, one))

\* CalcWork with the process-wide constants passed in (they are heap
\* objects: a call could write to them)
CalcWorkWith(bits, one, lsh256) ==
    LET difficultyNum == CompactToBig(bits)
    IN  IF BigSign(difficultyNum) <= 0 THEN BigNewInt(0)
        ELSE BigDiv(lsh256, BigAdd(difficultyNum, one))

CalcWork(bits) == CalcWorkWith(bits, bigOne, oneLsh256)

(***************************************************************************)
(* time.Time and time.Duration.  A Time is its Unix second (an int64, as a *)
(* big integer) and its nanosecond within the second; a Duration is an     *)
(* int64 count of nanoseconds.                                             *)
(***************************************************************************)
Billion == BigNewInt(1000000000)

\* time.Unix(sec, 0): what Deserialize stores in a header
TimeOfUnix(sec) == [sec |-> BigNewInt(sec), nsec |-> BigZero]

\* Time.Unix()
TimeUnix(t) == t.sec

\* time.Second * time.Duration(n): an int64 product, which wraps
SecondsToDuration(n) == WrapInt64(BigMul(Billion, n))

\* Time.Add(d): "dsec := int64(d / 1e9); nsec := t.nsec() + int32(d % 1e9)",
\* then the nanoseconds are brought back into [0, 1e9)
TimeNormalize(sec, nsec) ==
    IF BigCmp(nsec, Billion) >= 0
    THEN [sec |-> BigAdd(sec, BigNewInt(1)), nsec |-> BigSub(nsec, Billion)]
    ELSE IF BigSign(nsec) < 0
    THEN [sec |-> BigSub(sec, BigNewInt(1)), nsec |-> BigAdd(nsec, Billion)]
    ELSE [sec |-> sec, nsec |-> nsec]

TimeAdd(t, d) ==
    TimeNormalize(BigAdd(t.sec, BigQuo(d, Billion)),
                  BigAdd(t.nsec, BigRem(d, Billion)))

(***************************************************************************)
(* Network parameters.                                                     *)
(***************************************************************************)
PowLimitBits == 504365055           \* 0x1e0fffff

TargetTimePerBlock == 150           \* seconds

\* the fields of VertcoinParams that calcDiffAdjustKGW reads
VertcoinParams ==
    [PowLimit           |-> BigSub(BigLsh(bigOne, 236), bigOne),
     PowLimitBits       |-> PowLimitBits,
     TargetTimePerBlock |-> TargetTimePerBlock]

(***************************************************************************)
(* calcDiffAdjustKGW.  The window lengths of the code (minBlocks 144,      *)
(* maxBlocks 4032, 4200 headers fetched) are scaled down; every formula    *)
(* below is stated in terms of these names.                                *)
(***************************************************************************)
minBlocks == 3

maxBlocks == 5

\* "idx := -2": the offset from len(headers) of the first header read
FirstIdx == -2

\* 1 + 0.7084 * math.Pow(float64(blocksScanned)/float64(minBlocks), -1.228)
\* in millionths, tabulated: row minBlocks, column blocksScanned
EventHorizonDeviationTable ==
    << <<1708400, 1302422, 1183812, 1129107, 1098162, 1078471, 1064938, 1055117, 1047695, 1041906>>,
       <<2659371, 1708400, 1430565, 1302422, 1229937, 1183812, 1152112, 1129107, 1111721, 1098162>>,
       <<3730131, 2165517, 1708400, 1497570, 1378310, 1302422, 1250267, 1212417, 1183812, 1161504>>,
       <<4886943, 2659371, 2008564, 1708400, 1538608, 1430565, 1356310, 1302422, 1261697, 1229937>>,
       <<6112269, 3182473, 2326505, 1931717, 1708400, 1566297, 1468633, 1397758, 1344194, 1302422>>,
       <<7395114, 3730131, 2659371, 2165517, 1886162, 1708400, 1586230, 1497570, 1430565, 1378310>> >>

EventHorizonDeviation(blocksScanned) ==
    BigNewInt(EventHorizonDeviationTable[minBlocks][blocksScanned])

Million == BigNewInt(1000000)

\* rateAdjustmentRatio <= eventHorizonDevationSlow, with
\* rateAdjustmentRatio = targetRate / actualRate (1 when a rate is 0) and
\* eventHorizonDevationSlow = 1 / eventHorizonDeviation: compared as fractions
RatioAtMostSlow(targetRate, actualRate, deviation) ==
    /\ BigSign(actualRate) # 0
    /\ BigSign(targetRate) # 0
    /\ BigCmp(BigMul(targetRate, deviation), BigMul(actualRate, Million)) <= 0

\* rateAdjustmentRatio >= eventHorizonDeviationFast
RatioAtLeastFast(targetRate, actualRate, deviation) ==
    /\ BigSign(actualRate) # 0
    /\ BigSign(targetRate) # 0
    /\ BigCmp(BigMul(targetRate, Million), BigMul(actualRate, deviation)) >= 0

\* the early exit without the test "blocksScanned >= int64(minBlocks)"
OutsideEventHorizonAnyLength(blocksScanned, targetRate, actualRate) ==
    \/ RatioAtMostSlow(targetRate, actualRate, EventHorizonDeviation(blocksScanned))
    \/ RatioAtLeastFast(targetRate, actualRate, EventHorizonDeviation(blocksScanned))

\* the early exit of the scan: enough samples and the rate outside the envelope
OutsideEventHorizon(blocksScanned, targetRate, actualRate) ==
    /\ blocksScanned >= minBlocks
    /\ \/ RatioAtMostSlow(targetRate, actualRate, EventHorizonDeviation(blocksScanned))
       \/ RatioAtLeastFast(targetRate, actualRate, EventHorizonDeviation(blocksScanned))

\* the guard written "height < minBlocks"
TooYoungOffByOne(height) == height < minBlocks

\* "if height-1 < minBlocks": the chain is too young to retarget
TooYoung(height) == height - 1 < minBlocks

\* the test written "i > maxBlocks+1": one sample and one read too many
PastMaxBlocksOffByOne(i) == i > maxBlocks + 1

\* "if i > maxBlocks": the scan has taken maxBlocks samples
PastMaxBlocks(i) == i > maxBlocks

\* headers[len(headers)+idx] is in range (Go panics otherwise)
InRange(headers, idx) ==
    Len(headers) + idx >= 0 /\ Len(headers) + idx < Len(headers)

\* headers[len(headers)+idx], the sequence being indexed from 1
HeaderAt(headers, idx) == headers[Len(headers) + idx + 1]

\* the cumulative moving average after sample i
DifficultyAverage(i, bits, previousDifficultyAverage) ==
    IF i = 1 THEN CompactToBig(bits)
    ELSE BigAdd(BigDiv(BigSub(CompactToBig(bits), previousDifficultyAverage),
                       BigNewInt(i)),
                previousDifficultyAverage)

\* "actualRate = lastSolved.Timestamp.Unix() - currentBlock.Timestamp.Unix()"
\* clamped at 0
ActualRate(lastSolved, currentBlock) ==
    LET d == BigSub(TimeUnix(lastSolved.Timestamp), TimeUnix(currentBlock.Timestamp))
    IN  IF BigSign(d) < 0 THEN BigZero ELSE d

\* the state of the scan after its sample i is folded in
ScanSample(st, lastSolved, currentBlock, p) ==
    [st EXCEPT
       !.blocksScanned = st.blocksScanned + 1,
       !.difficultyAverage =
           DifficultyAverage(st.i, currentBlock.Bits, st.difficultyAverage),
       !.actualRate = ActualRate(lastSolved, currentBlock),
       !.targetRate = BigNewInt(p.TargetTimePerBlock * (st.blocksScanned + 1))]

RECURSIVE ScanLoop(_, _, _)

\* the rest of an iteration once its sample is folded in (state s1): the
\* envelope break, the height break, the step to the next header
ScanStep(headers, p, s1) ==
    IF OutsideEventHorizon(s1.blocksScanned, s1.targetRate, s1.actualRate)
    THEN [s1 EXCEPT !.exit = "envelope"]
    ELSE IF s1.currentHeight <= 1 THEN [s1 EXCEPT !.exit = "height"]
    ELSE IF ~InRange(headers, s1.idx - 1)
    THEN [s1 EXCEPT !.exit = "panic", !.idx = s1.idx - 1,
                    !.currentHeight = s1.currentHeight - 1]
    ELSE ScanLoop(headers, p,
                  [s1 EXCEPT !.i = s1.i + 1, !.idx = s1.idx - 1,
                             !.currentHeight = s1.currentHeight - 1,
                             !.reads = Append(s1.reads, Len(headers) + s1.idx - 1)])

\* the for loop of the scan, from the top of iteration st.i
ScanLoop(headers, p, st) ==
    IF ~(st.currentHeight > 0) THEN [st EXCEPT !.exit = "height"]
    ELSE IF PastMaxBlocks(st.i) THEN [st EXCEPT !.exit = "maxBlocks"]
    ELSE ScanStep(headers, p,
                  ScanSample(st, HeaderAt(headers, FirstIdx),
                             HeaderAt(headers, st.idx), p))

\* the scan of calcDiffAdjustKGW from "idx := -2" to the end of the loop
Scan(headers, height, p) ==
    LET st0 == [i |-> 1, idx |-> FirstIdx, currentHeight |-> height - 1,
                blocksScanned |-> 0, difficultyAverage |-> BigZero,
                actualRate |-> BigZero, targetRate |-> BigZero,
                reads |-> <<>>, exit |-> "none"]
    IN  IF ~InRange(headers, FirstIdx) THEN [st0 EXCEPT !.exit = "panic"]
        ELSE ScanLoop(headers, p,
                      [st0 EXCEPT !.reads = <<Len(headers) + FirstIdx>>])

\* "newTarget.Mul(&newTarget, actualRate); newTarget.Div(&newTarget, targetRate)"
RawTarget(difficultyAverage, actualRate, targetRate) ==
    IF BigSign(actualRate) # 0 /\ BigSign(targetRate) # 0
    THEN BigDiv(BigMul(difficultyAverage, actualRate), targetRate)
    ELSE difficultyAverage

\* the comparison without the assignment: the target is never clamped
ClampNever(newTarget, PowLimit) == [newTarget |-> newTarget, PowLimit |-> PowLimit]

\* the assignment the other way round, "*p.PowLimit = newTarget": the
\* ceiling of the parameter block is overwritten
ClampWritesPowLimit(newTarget, PowLimit) ==
    [newTarget |-> newTarget, PowLimit |-> newTarget]

\* "if newTarget.Cmp(p.PowLimit) == 1 { newTarget = *p.PowLimit }": the new
\* target and the value p.PowLimit points to afterwards
ClampToPowLimit(newTarget, PowLimit) ==
    [newTarget |-> IF BigCmp(newTarget, PowLimit) = 1 THEN PowLimit ELSE newTarget,
     PowLimit  |-> PowLimit]

\* what a call that scanned and did not panic returns, from the state st the
\* scan ended in and the raw target
Retargeted(p, st, raw) ==
    [err |-> "nil",
     bits |-> BigToCompact(ClampToPowLimit(raw, p.PowLimit).newTarget),
     p |-> [p EXCEPT !.PowLimit = ClampToPowLimit(raw, p.PowLimit).PowLimit],
     retarget |-> TRUE, reads |-> st.reads, blocksScanned |-> st.blocksScanned,
     exit |-> st.exit, raw |-> raw, needed |-> -st.idx]

\* lines 296-307, or the panic the scan ended in
AfterScan(p, st) ==
    IF st.exit = "panic"
    THEN [err |-> "panic", bits |-> 0, p |-> p, retarget |-> TRUE,
          reads |-> st.reads, blocksScanned |-> st.blocksScanned,
          exit |-> st.exit, raw |-> BigZero, needed |-> -st.idx]
    ELSE Retargeted(p, st,
                    RawTarget(st.difficultyAverage, st.actualRate, st.targetRate))

\* One call.  err is "nil" or "panic" (an index out of range); bits is the
\* compact value returned; p is the parameter block after the call; the
\* other fields record what the call did.
calcDiffAdjustKGW(headers, height, p) ==
    IF TooYoung(height)
    THEN [err |-> "nil", bits |-> p.PowLimitBits, p |-> p, retarget |-> FALSE,
          reads |-> <<>>, blocksScanned |-> 0, exit |-> "none",
          raw |-> BigZero, needed |-> 0]
    ELSE AfterScan(p, Scan(headers, height, p))

(***************************************************************************)
(* Bounds of the model and the inputs it draws.                            *)
(***************************************************************************)
\* the number of headers main fetches (4200 in the code), scaled with
\* minBlocks and maxBlocks
WindowCap == 8

\* the largest {num} argument
MaxNumBlocks == 2

\* the number of calls one run of the retarget harness makes
MaxCalls == 3

\* the largest exponent byte of the dense part of the codec inputs
MaxExponent == 5

NoOverride == -1

Last(seq) == seq[Len(seq)]

\* n headers, oldest first: `spacing` seconds apart except the newest k,
\* which follow their predecessors by `late` seconds; the bits alternate
ShapedWindow(n, sh) ==
    [j \in 1..n |->
       [Timestamp |-> TimeOfUnix(1500000000 + j * sh.spacing
                        + (IF j > n - sh.k THEN (j - (n - sh.k)) * (sh.late - sh.spacing)
                           ELSE 0)),
        Bits |-> IF j % 2 = 0 THEN sh.even ELSE sh.odd]]

Steady(spacing, bits) ==
    [spacing |-> spacing, late |-> spacing, k |-> 0, even |-> bits, odd |-> bits]

SteadyWindow(n, spacing, bits) == ShapedWindow(n, Steady(spacing, bits))

\* the windows drawn: on schedule at the ceiling difficulty; slow at the
\* ceiling (the retarget exceeds PowLimit); fast at a harder difficulty
\* (0x1c0ffff0); a long gap behind the newest three headers, with bits
\* alternating between 0x1c0ffff0 and 0x1d00ffff
WindowShapes ==
    {Steady(150, PowLimitBits), Steady(400, PowLimitBits), Steady(60, 470810608),
     [spacing |-> 700, late |-> 150, k |-> 3, even |-> 470810608, odd |-> 486604799]}

DriverWindows == {ShapedWindow(WindowCap, sh) : sh \in WindowShapes}

\* {hash}: GH/s
HashArgs == {0, 1, 1000}

\* {diff}: none, 0x1c0ffff0, 0x03000001 (target 1), 0x18010000 (target 2^184)
DiffArgs == {NoOverride, 470810608, 50331649, 402718720}

\* the windows of the direct calls: every length up to WindowCap, and also
\* timestamps that run backwards (the actual rate is clamped to 0)
CalcWindows ==
    {ShapedWindow(n, sh) : n \in 0..WindowCap,
                           sh \in WindowShapes \cup {Steady(-100, 470810608)}}

CalcHeights == {0, minBlocks, minBlocks + 1, minBlocks + 2, maxBlocks + 1, 1000}

\* an input every run of the harness may also call with: its retarget is
\* above PowLimit
OtherInput == [headers |-> SteadyWindow(WindowCap, 400, PowLimitBits),
               height |-> 1000]

\* compact values: exponent, sign bit, mantissa
Compact(exponent, sign, mantissa) == exponent * 16777216 + sign * 8388608 + mantissa

Mantissas == {0, 1, 128, 255, 256, 32767, 32768, 65535, 65536, 1048575,
              1179648, 1193046, 8388606, 8388607}

CompactInputs ==
    {Compact(e, sg, m) : e \in (0..MaxExponent) \cup {29, 30, 32, 34},
                         sg \in {0, 1}, m \in Mantissas}

\* the second operand CalcWork is compared on
WorkInputs == {Compact(e, 0, m) : e \in {3, 30, 32},
                                  m \in {1, 65536, 8388606, 8388607}}

(***************************************************************************)
(* main.                                                                   *)
(***************************************************************************)
Idle ==
    [lastBlocks |-> <<>>, bestHeader |-> <<>>, height |-> 0, startHeight |-> 0,
     diff |-> 0, hashRate |-> BigZero, blockIndex |-> 0, totalSeconds |-> BigZero,
     rows |-> <<>>, summary |-> <<>>, args |-> <<>>, calls |-> <<>>, cin |-> <<>>,
     cout |-> [op |-> "none"]]

\* the state when the headers have been fetched (line 457)
Init ==
    /\ pc = "start"
    /\ args \in [hash : HashArgs, num : 1..MaxNumBlocks, diff : DiffArgs]
    /\ lastBlocks \in DriverWindows
    /\ chainHeight = 1000
    /\ bestHeader = Idle.bestHeader
    /\ startHeight = Idle.startHeight
    /\ diff = Idle.diff
    /\ hashRate = Idle.hashRate
    /\ blockIndex = Idle.blockIndex
    /\ totalSeconds = Idle.totalSeconds
    /\ rows = Idle.rows
    /\ summary = Idle.summary
    /\ params = VertcoinParams
    /\ calls = Idle.calls
    /\ cin = Idle.cin
    /\ cout = Idle.cout

\* one call of calcDiffAdjustKGW made by the process: the call is logged,
\* the parameter block is what the call left, a panic ends the process
Called(headers, h, res) ==
    /\ calls' = Append(calls, [headers |-> headers, height |-> h, res |-> res])
    /\ params' = res.p
    /\ pc' = IF res.err = "nil" THEN (IF pc = "start" THEN "loop" ELSE pc)
             ELSE "panic"

\* lines 458-488: the first retarget, the override and the arguments
Startup ==
    /\ pc = "start"
    /\ Called(lastBlocks, chainHeight,
              calcDiffAdjustKGW(lastBlocks, chainHeight, params))
    /\ diff' = IF args.diff # NoOverride THEN args.diff ELSE Last(calls').res.bits
    /\ bestHeader' = Last(lastBlocks)
    /\ hashRate' = BigMul(BigNewInt(args.hash), Billion)
    /\ totalSeconds' = BigZero
    /\ startHeight' = chainHeight
    /\ blockIndex' = 0
    /\ UNCHANGED <<args, lastBlocks, chainHeight, rows, summary, cin, cout>>

\* "workForBlock.Div(workForBlock, hashRate).Int64()"
TimeInSeconds(work, rate) == BigInt64(BigDiv(work, rate))

\* the header crafted at lines 504-505
NewHeader(best, bits, timeInSeconds) ==
    [Timestamp |-> TimeAdd(best.Timestamp, SecondsToDuration(timeInSeconds)),
     Bits |-> bits]

\* "lastBlocks = append(lastBlocks[1:], newHeader)"
Roll(window, header) == Append(Tail(window), header)

\* "seconds := timeInSeconds % int64(60)"
SecondsPart(timeInSeconds) == BigRem(timeInSeconds, BigNewInt(60))

\* the row printed at line 500
Row(h, bits, timeInSeconds) ==
    [height |-> h, diff |-> bits, time |-> timeInSeconds,
     minutes |-> BigQuo(BigSub(timeInSeconds, SecondsPart(timeInSeconds)),
                        BigNewInt(60)),
     seconds |-> SecondsPart(timeInSeconds)]

\* lines 506-509: the window rolls and the difficulty is recomputed
AppendHeader(window) ==
    /\ lastBlocks' = window
    /\ bestHeader' = Last(window)
    /\ Called(window, chainHeight', calcDiffAdjustKGW(window, chainHeight', params))
    /\ diff' = Last(calls').res.bits

\* lines 495-509 for the time to block computed at line 494
MineBlock(timeInSeconds) ==
    /\ chainHeight' = chainHeight + 1
    /\ totalSeconds' = WrapInt64(BigAdd(totalSeconds, timeInSeconds))
    /\ rows' = Append(rows, Row(chainHeight', diff, timeInSeconds))
    /\ AppendHeader(Roll(lastBlocks, NewHeader(bestHeader, diff, timeInSeconds)))

\* one iteration of the loop at lines 490-513
SimulateBlock ==
    /\ pc = "loop"
    /\ blockIndex < args.num
    /\ BigSign(hashRate) # 0
    /\ MineBlock(TimeInSeconds(CalcWork(diff), hashRate))
    /\ blockIndex' = blockIndex + 1
    /\ UNCHANGED <<args, startHeight, hashRate, summary, cin, cout>>

\* line 494 with a hash rate of 0: Int.Div panics (division by zero)
SimulateBlockDivideByZero ==
    /\ pc = "loop"
    /\ blockIndex < args.num
    /\ BigSign(hashRate) = 0
    /\ pc' = "panic"
    /\ UNCHANGED <<args, lastBlocks, bestHeader, chainHeight, startHeight, diff,
                   hashRate, blockIndex, totalSeconds, rows, summary, params,
                   calls, cin, cout>>

\* line 515: the summary (num is at least 1, so height > startHeight)
Summary ==
    /\ pc = "loop"
    /\ blockIndex >= args.num
    /\ summary' = [blocks  |-> chainHeight - startHeight,
                   seconds |-> totalSeconds,
                   average |-> BigQuo(totalSeconds,
                                      BigNewInt(chainHeight - startHeight))]
    /\ pc' = "done"
    /\ UNCHANGED <<args, lastBlocks, bestHeader, chainHeight, startHeight, diff,
                   hashRate, blockIndex, totalSeconds, rows, params, calls, cin, cout>>

Next == Startup \/ SimulateBlock \/ SimulateBlockDivideByZero \/ Summary

Spec == Init /\ [][Next]_vars

(***************************************************************************)
(* calcDiffAdjustKGW called directly: on the input drawn by the initial    *)
(* state or on OtherInput, MaxCalls times in any order.                    *)
(***************************************************************************)
InitCalc ==
    /\ pc = "calc"
    /\ cin \in [headers : CalcWindows, height : CalcHeights]
    /\ params = VertcoinParams
    /\ calls = <<>>
    /\ args = Idle.args
    /\ lastBlocks = Idle.lastBlocks
    /\ bestHeader = Idle.bestHeader
    /\ chainHeight = Idle.height
    /\ startHeight = Idle.startHeight
    /\ diff = Idle.diff
    /\ hashRate = Idle.hashRate
    /\ blockIndex = Idle.blockIndex
    /\ totalSeconds = Idle.totalSeconds
    /\ rows = Idle.rows
    /\ summary = Idle.summary
    /\ cout = Idle.cout

Call ==
    /\ pc = "calc"
    /\ Len(calls) < MaxCalls
    /\ \E in \in {cin, OtherInput} :
         Called(in.headers, in.height,
                calcDiffAdjustKGW(in.headers, in.height, params))
    /\ UNCHANGED <<args, lastBlocks, bestHeader, chainHeight, startHeight, diff,
                   hashRate, blockIndex, totalSeconds, rows, summary, cin, cout>>

NextCalc == Call

SpecCalc == InitCalc /\ [][NextCalc]_vars

(***************************************************************************)
(* The codec and CalcWork applied to the compact value drawn.              *)
(***************************************************************************)
InitCodec ==
    /\ pc = "codec"
    /\ cin \in CompactInputs
    /\ cout = Idle.cout
    /\ params = VertcoinParams
    /\ calls = Idle.calls
    /\ args = Idle.args
    /\ lastBlocks = Idle.lastBlocks
    /\ bestHeader = Idle.bestHeader
    /\ chainHeight = Idle.height
    /\ startHeight = Idle.startHeight
    /\ diff = Idle.diff
    /\ hashRate = Idle.hashRate
    /\ blockIndex = Idle.blockIndex
    /\ totalSeconds = Idle.totalSeconds
    /\ rows = Idle.rows
    /\ summary = Idle.summary

RoundTrip ==
    /\ pc = "codec"
    /\ cout.op = "none"
    /\ cout' = [op |-> "roundtrip", c |-> cin, big |-> CompactToBig(cin),
                back |-> BigToCompact(CompactToBig(cin))]
    /\ UNCHANGED <<pc, args, lastBlocks, bestHeader, chainHeight, startHeight, diff,
                   hashRate, blockIndex, totalSeconds, rows, summary, params, calls,
                   cin>>

Work ==
    /\ pc = "codec"
    /\ cout.op = "none"
    /\ \E c2 \in WorkInputs :
         cout' = [op |-> "work", c1 |-> cin, c2 |-> c2,
                  t1 |-> CompactToBig(cin), t2 |-> CompactToBig(c2),
                  w1 |-> CalcWork(cin), w2 |-> CalcWork(c2)]
    /\ UNCHANGED <<pc, args, lastBlocks, bestHeader, chainHeight, startHeight, diff,
                   hashRate, blockIndex, totalSeconds, rows, summary, params, calls,
                   cin>>

NextCodec == RoundTrip \/ Work

SpecCodec == InitCodec /\ [][NextCodec]_vars

(***************************************************************************)
(* Properties of the codec and of CalcWork, under SpecCodec.               *)
(***************************************************************************)
Exponent(c) == c \div 16777216

Mantissa(c) == c % 8388608

\* the decode of c drops no non-zero mantissa bits (it shifts right only for
\* an exponent of at most 3)
ShiftsOutNothing(c) ==
    Exponent(c) > 3 \/ Mantissa(c) % (256 ^ (3 - Exponent(c))) = 0

\* c is the form BigToCompact produces: 0, or a mantissa of at least 0x008000
Canonical(c) == c = 0 \/ Mantissa(c) >= 32768

\* C1 as stated: every compact value whose decode shifts out no non-zero
\* mantissa bits is reproduced exactly by decode then encode.
C1_RoundTripOfEveryValue ==
    (cout.op = "roundtrip" /\ ShiftsOutNothing(cout.c)) => cout.back = cout.c

\* C1, amended: among the compact values whose decode shifts out no non-zero
\* mantissa bits, decode then encode reproduces exactly the canonical ones
\* (0, or mantissa >= 0x008000); any other value comes back as the canonical
\* encoding of the same number, which is a different word.
C1_RoundTrip ==
    (cout.op = "roundtrip" /\ ShiftsOutNothing(cout.c))
        => /\ (cout.back = cout.c) <=> Canonical(cout.c)
           /\ Canonical(cout.back)
           /\ CompactToBig(cout.back) = cout.big

\* a canonical non-zero value with an exponent of at most 3 has made the trip
C1_Witness ==
    /\ cout.op = "roundtrip"
    /\ cout.c # 0
    /\ Exponent(cout.c) <= 3
    /\ ShiftsOutNothing(cout.c)
    /\ Canonical(cout.c)
    /\ cout.back = cout.c

\* C4 as stated: CalcWork is strictly larger for the smaller of two positive
\* targets, and 0 for a target <= 0.
C4_WorkStrictlyDecreasing ==
    cout.op = "work"
        => /\ (BigSign(cout.t1) > 0 /\ BigCmp(cout.t1, cout.t2) < 0)
                 => BigCmp(cout.w1, cout.w2) > 0
           /\ (BigSign(cout.t2) > 0 /\ BigCmp(cout.t2, cout.t1) < 0)
                 => BigCmp(cout.w2, cout.w1) > 0
           /\ BigSign(cout.t1) <= 0 => cout.w1 = BigZero
           /\ BigSign(cout.t2) <= 0 => cout.w2 = BigZero

\* C4, amended: CalcWork is at least as large for the smaller of two positive
\* targets (equal where the floor of 2^256 / (target + 1) is the same), never
\* negative, and 0 for a target <= 0.
C4_WorkMonotone ==
    cout.op = "work"
        => /\ (BigSign(cout.t1) > 0 /\ BigCmp(cout.t1, cout.t2) < 0)
                 => BigCmp(cout.w1, cout.w2) >= 0
           /\ (BigSign(cout.t2) > 0 /\ BigCmp(cout.t2, cout.t1) < 0)
                 => BigCmp(cout.w2, cout.w1) >= 0
           /\ BigSign(cout.w1) >= 0 /\ BigSign(cout.w2) >= 0
           /\ BigSign(cout.t1) <= 0 => cout.w1 = BigZero
           /\ BigSign(cout.t2) <= 0 => cout.w2 = BigZero

\* two positive targets that differ have given works that differ
C4_Witness ==
    /\ cout.op = "work"
    /\ BigSign(cout.t1) > 0
    /\ BigCmp(cout.t1, cout.t2) < 0
    /\ BigCmp(cout.w1, cout.w2) > 0

(***************************************************************************)
(* Properties of calcDiffAdjustKGW, under SpecCalc: they are stated of     *)
(* every call logged.                                                      *)
(***************************************************************************)
CallIds == 1..Len(calls)

\* the call scanned (the chain was not too young) and returned
Scanned(c) == c.res.retarget /\ c.res.err = "nil"

\* the raw retargeted target of the call is above the ceiling
AboveCeiling(c) == Scanned(c) /\ BigCmp(c.res.raw, VertcoinParams.PowLimit) = 1

\* C2 as stated: a call whose raw target is above the ceiling returns a
\* compact value that decodes to exactly PowLimit.
C2_ClampDecodesToCeiling ==
    \A k \in CallIds :
        AboveCeiling(calls[k]) => CompactToBig(calls[k].res.bits) = VertcoinParams.PowLimit

\* C2, amended: a call whose raw target is above the ceiling returns the
\* compact encoding of PowLimit, which is PowLimitBits; it decodes to PowLimit
\* truncated to its three most significant bytes (0x0fffff * 2^216), which is
\* below PowLimit.
C2_Clamp ==
    \A k \in CallIds :
        AboveCeiling(calls[k])
            => /\ calls[k].res.bits = BigToCompact(VertcoinParams.PowLimit)
               /\ calls[k].res.bits = PowLimitBits
               /\ CompactToBig(calls[k].res.bits)
                    = BigLsh(BigRsh(VertcoinParams.PowLimit, 216), 216)
               /\ BigCmp(CompactToBig(calls[k].res.bits), VertcoinParams.PowLimit) < 0

\* a call has retargeted above the ceiling and returned
C2_Witness == \E k \in CallIds : AboveCeiling(calls[k])

\* C5 as stated: a call that retargets with fewer headers than its scan reads
\* ends with the error InsufficientHistory.
C5_InsufficientHistoryReported ==
    \A k \in CallIds :
        (/\ calls[k].height - 1 >= minBlocks
         /\ Len(calls[k].headers) < calls[k].res.needed)
            => calls[k].res.err = "InsufficientHistory"

\* C6: a call with height-1 < minBlocks returns PowLimitBits without an error
\* and without reading a header, whatever the window is.
C6_Floor ==
    \A k \in CallIds :
        calls[k].height - 1 < minBlocks
            => /\ calls[k].res.err = "nil"
               /\ calls[k].res.bits = PowLimitBits
               /\ calls[k].res.reads = <<>>

\* a call at the last young height has returned with an empty window
C6_Witness ==
    \E k \in CallIds :
        /\ calls[k].height = minBlocks
        /\ calls[k].headers = <<>>
        /\ calls[k].res.bits = PowLimitBits

C9_ScanLength ==
    \A k \in CallIds :
        Scanned(calls[k])
            => /\ calls[k].res.blocksScanned >= minBlocks
               /\ calls[k].res.blocksScanned <= maxBlocks
               /\ Len(calls[k].res.reads) >= calls[k].res.blocksScanned

\* one scan was ended by the envelope test at exactly minBlocks samples and
\* another ran to maxBlocks samples
C9_Witness ==
    /\ \E k \in CallIds :
          /\ Scanned(calls[k])
          /\ calls[k].res.exit = "envelope"
          /\ calls[k].res.blocksScanned = minBlocks
    /\ \E k \in CallIds :
          /\ Scanned(calls[k])
          /\ calls[k].res.exit = "maxBlocks"
          /\ calls[k].res.blocksScanned = maxBlocks

(***************************************************************************)
(* Properties of main, under Spec.  Row k is the k-th simulated block;     *)
(* call k is the retarget before it and call k + 1 the retarget after it.  *)
(***************************************************************************)
BlockIds == 1..Len(rows)

\* floor(CalcWork(bits) / hashRate), in arbitrary precision
ExactTimeToBlock(bits) == BigDiv(CalcWork(bits), hashRate)

\* C3 as stated: the time to block reported for a simulated block, and the
\* time added to the timestamp of its header, is floor(CalcWork(diff) / hashRate).
C3_TimeToBlockExact ==
    \A k \in BlockIds :
        /\ rows[k].time = ExactTimeToBlock(rows[k].diff)
        /\ BigSub(TimeUnix(Last(calls[k + 1].headers).Timestamp),
                  TimeUnix(Last(calls[k].headers).Timestamp))
             = ExactTimeToBlock(rows[k].diff)

\* C8 as stated: the first header a scan reads is the last header of the
\* window it was given (index len - 1).
C8_ScanStartsAtNewest ==
    \A k \in CallIds :
        calls[k].res.reads # <<>>
            => calls[k].res.reads[1] = Len(calls[k].headers) - 1

\* C10 as stated: a simulated block leaves the window at its length, drops
\* the oldest header, moves the others one place toward the front and puts
\* last a header whose timestamp is the previous newest timestamp plus the
\* reported time to block and whose bits are the reported difficulty.
C10_WindowIsFifo ==
    /\ pc # "start" => lastBlocks = Last(calls).headers
    /\ \A k \in BlockIds :
          /\ Len(calls[k + 1].headers) = Len(calls[k].headers)
          /\ Len(calls[k + 1].headers) = WindowCap
          /\ \A j \in 1..(WindowCap - 1) :
                calls[k + 1].headers[j] = calls[k].headers[j + 1]
          /\ Last(calls[k + 1].headers).Bits = rows[k].diff
          /\ Last(calls[k + 1].headers).Timestamp
               = [sec  |-> BigAdd(TimeUnix(Last(calls[k].headers).Timestamp),
                                  rows[k].time),
                  nsec |-> BigZero]

(***************************************************************************)
(* The process is main or a run of direct calls of calcDiffAdjustKGW: the  *)
(* properties of every call, whoever makes it, are stated under SpecCalls. *)
(***************************************************************************)
InitCalls == Init \/ InitCalc

NextCalls == Next \/ NextCalc

SpecCalls == InitCalls /\ [][NextCalls]_vars

\* min(height, maxBlocks + 2): the number of headers the scan can reach
ScanHorizon(h) == IF h < maxBlocks + 2 THEN h ELSE maxBlocks + 2

\* the window of the call is at least as long as the scan can reach
CoversHorizon(c) ==
    c.height - 1 >= minBlocks /\ Len(c.headers) >= ScanHorizon(c.height)

\* C11: a call with height-1 >= minBlocks and a window of at least
\* min(height, maxBlocks+2) headers reads only indices in [0, len-1] and
\* returns (no index is out of range); the calls of main, whose window stays
\* at WindowCap >= maxBlocks+2 headers, are all such calls.
C11_IndexSafety ==
    /\ \A k \in CallIds :
          CoversHorizon(calls[k])
              => /\ calls[k].res.err = "nil"
                 /\ calls[k].res.reads # <<>>
                 /\ \A r \in 1..Len(calls[k].res.reads) :
                       /\ calls[k].res.reads[r] >= 0
                       /\ calls[k].res.reads[r] <= Len(calls[k].headers) - 1
                 /\ calls[k].res.needed <= ScanHorizon(calls[k].height)
    /\ pc \in {"start", "loop", "done"}
          => /\ Len(lastBlocks) = WindowCap
             /\ WindowCap >= maxBlocks + 2
             /\ \A k \in CallIds : CoversHorizon(calls[k])

\* a scan has run to maxBlocks samples on a window of exactly maxBlocks+2
\* headers and read its oldest header, index 0
C11_Witness ==
    \E k \in CallIds :
        /\ CoversHorizon(calls[k])
        /\ Len(calls[k].headers) = maxBlocks + 2
        /\ calls[k].res.exit = "maxBlocks"
        /\ \E r \in 1..Len(calls[k].res.reads) : calls[k].res.reads[r] = 0

=============================================================================
